---- MODULE Spec2Model ----
(***************************************************************************)
(* Promise.some, Promise.none and Promise.try of PromiseExtension.js, on   *)
(* top of the host promise primitive: a promise settles once, a reaction   *)
(* registered with then() runs as a job of a FIFO job queue, queued when   *)
(* the promise settles (or at once when then() finds it already settled).  *)
(***************************************************************************)
EXTENDS Naturals, Sequences, FiniteSets

\* Number of operations (promises) the environment owns.
NumOps == 3
\* Longest array passed to Promise.some / Promise.none.
MaxLen == 3

Ops == 1..NumOps

\* An array element that is not a Promise (the else branch of the loop).
NonPromise == 0

---------------------------------------------------------------------------
\* Values carried by promises: a scalar, an array, or the error string.

Scalar(v) == [tag |-> "value", items |-> <<v>>]

Array(s) == [tag |-> "array", items |-> s]

\* "Only Promises can be used with Promise.some()"
ErrorMessage == [tag |-> "string", items |-> <<>>]

\* new Promise(...): pending until resolve or reject is called.
Pending == [state |-> "pending", tag |-> "none", items |-> <<>>]

ResolveOverwrites(p, val) == [state |-> "fulfilled", tag |-> val.tag, items |-> val.items]

\* resolve(val) of the host primitive: a no-op on a settled promise.
Resolve(p, val) ==
    IF p.state = "pending"
    THEN [state |-> "fulfilled", tag |-> val.tag, items |-> val.items]
    ELSE p

\* reject(val) of the host primitive: a no-op on a settled promise.
Reject(p, val) ==
    IF p.state = "pending"
    THEN [state |-> "rejected", tag |-> val.tag, items |-> val.items]
    ELSE p

Settled(p) == p.state # "pending"

ValueOf(p) == [tag |-> p.tag, items |-> p.items]

\* The value an operation fulfils with, or the reason it rejects with.
Payload(o) == o

---------------------------------------------------------------------------
VARIABLES
    ops,                    \* state of each operation: pending/fulfilled/rejected
    settleOrder,            \* the operations in the order they settled
    settledAtCall,          \* how many had settled when the combinator was called
    jobs,                   \* the host's FIFO queue of reaction jobs
    pc,                     \* which combinator was called: idle/some/none
    promises,               \* the argument of Promise.some
    rejectionlessPromises,  \* indices whose then() promise was pushed
    reasons,                \* Promise.some's reason log
    rejectionCount,         \* Promise.some's count of failed operations
    someResult,             \* the promise Promise.some returns
    noneResult,             \* the promise Promise.none returns
    tryPc,                  \* Promise.try: idle, returned or threw
    fn,                     \* first argument of Promise.try
    time,                   \* second argument of Promise.try
    attemptNum,             \* Promise.try's attempt counter
    maxAttempts,            \* attempts || 0
    times,                  \* [].concat(time)
    tryReasons,             \* Promise.try's reason log
    tryResult,              \* what Promise.try returned
    invocations,            \* how many times fn was invoked
    timers,                 \* how many timers setTimeout started
    alwaysPc,               \* always: idle or called
    alwaysOp,               \* the operation always was called on (this)
    alwaysFn,               \* how the callback fn behaves
    alwaysResult,           \* the promise always returns
    fnCalls,                \* how many times the callback fn was invoked
    fnArgs,                 \* what fn was invoked with, call by call
    pc2,                    \* a second call of Promise.some: idle or some
    promises2,              \* the second call's promises
    settledAtCall2,         \* how many operations had settled at the second call
    rejectionlessPromises2, \* the second call's rejectionlessPromises
    reasons2,               \* the second call's reasons
    rejectionCount2,        \* the second call's rejectionCount
    someResult2             \* the promise the second call returns

someVars == <<promises, rejectionlessPromises, reasons, rejectionCount, someResult>>

tryVars == <<tryPc, fn, time, attemptNum, maxAttempts, times, tryReasons,
             tryResult, invocations, timers>>

alwaysVars == <<alwaysPc, alwaysOp, alwaysFn, alwaysResult, fnCalls, fnArgs>>

secondVars == <<pc2, promises2, settledAtCall2, rejectionlessPromises2, reasons2,
                rejectionCount2, someResult2>>

vars == <<ops, settleOrder, settledAtCall, jobs, pc, someVars, noneResult, tryVars,
          alwaysVars, secondVars>>

\* The arguments tried: undefined, or an array of operations and non-promises.
Undefined == [defined |-> FALSE, elems |-> <<>>]

ArraysOfLen(n) == [1..n -> Ops \cup {NonPromise}]

Arguments ==
    {Undefined} \cup
    {[defined |-> TRUE, elems |-> a] : a \in UNION {ArraysOfLen(n) : n \in 0..MaxLen}}

Range(seq) == {seq[k] : k \in 1..Len(seq)}

SomeJob(i) == [handler |-> "some", idx |-> i]

NoneJob == [handler |-> "none", idx |-> 0]

AlwaysJob == [handler |-> "always", idx |-> 0]

\* A reaction job of the second call of Promise.some.
SecondJob(i) == [handler |-> "some2", idx |-> i]

---------------------------------------------------------------------------
\* Promise.some

\* promises[i] instanceof Promise
IsPromise(e) == e \in Ops

OnlyUndefinedIsEmpty(arg) == ~arg.defined

\* !promises || promises.length === 0
IsEmptyArgument(arg) == ~arg.defined \/ Len(arg.elems) = 0

SkipInvalid(acc) == acc

\* The else branch of the loop: reject with the error string.
RejectInvalid(acc) == [acc EXCEPT !.res = Reject(@, ErrorMessage)]

\* then() on promises[i]: the derived promise is pushed; a reaction job is
\* queued at once when the operation has already settled.
RegisterThen(arr, i, acc) ==
    [acc EXCEPT !.rl = Append(@, i),
                !.q = IF ops[arr[i]] # "pending" THEN Append(@, SomeJob(i)) ELSE @]

\* One iteration of the for loop.
LoopBody(arr, i, acc) ==
    IF IsPromise(arr[i]) THEN RegisterThen(arr, i, acc) ELSE RejectInvalid(acc)

RECURSIVE ForwardLoop(_, _, _)
ForwardLoop(arr, i, acc) ==
    IF i = 0 THEN acc
    ELSE LoopBody(arr, i, ForwardLoop(arr, i - 1, acc))

\* for (var i = promises.length; i--;): from the last element to the first.
RECURSIVE SomeLoop(_, _, _)
SomeLoop(arr, i, acc) ==
    IF i = 0 THEN acc
    ELSE SomeLoop(arr, i - 1, LoopBody(arr, i, acc))

\* The executor of the promise Promise.some returns, run synchronously.  The
\* promise of Promise.race(rejectionlessPromises) is dropped: nothing reads it.
SomeExecutor(arg) ==
    IF IsEmptyArgument(arg)
    THEN [res |-> Resolve(Pending, Array(<<>>)), rl |-> <<>>, q |-> <<>>]
    ELSE SomeLoop(arg.elems, Len(arg.elems), [res |-> Pending, rl |-> <<>>, q |-> <<>>])

EagerThreshold(n) == 1

OffByOneThreshold(n) == n + 1

\* The count at which rejectLastFailure rejects: promises.length.
RejectThreshold(n) == n

rejectWithLastReasonOnly(st, reason) ==
    LET rs == Append(st.reasons, reason)
        c  == st.rejectionCount + 1
    IN  [reasons |-> rs,
         rejectionCount |-> c,
         len |-> st.len,
         res |-> IF c = RejectThreshold(st.len)
                 THEN Reject(st.res, Array(<<reason>>))
                 ELSE st.res]

rejectForgetsReason(st, reason) ==
    LET c == st.rejectionCount + 1
    IN  [reasons |-> st.reasons,
         rejectionCount |-> c,
         len |-> st.len,
         res |-> IF c = RejectThreshold(st.len)
                 THEN Reject(st.res, Array(st.reasons))
                 ELSE st.res]

\* rejectLastFailure(reason), on the closure st of the call it belongs to
\* (reasons, rejectionCount, the call's reject, promises.length).
rejectLastFailure(st, reason) ==
    LET rs == Append(st.reasons, reason)
        c  == st.rejectionCount + 1
    IN  [reasons |-> rs,
         rejectionCount |-> c,
         len |-> st.len,
         res |-> IF c = RejectThreshold(st.len)
                 THEN Reject(st.res, Array(rs))
                 ELSE st.res]

\* The reaction of Promise.none on the result of Promise.some is queued when
\* that result settles.
NoneReactionQueued(old, new) ==
    IF pc = "none" /\ ~Settled(old) /\ Settled(new) THEN <<NoneJob>> ELSE <<>>

\* An operation settles (the environment's step): its reactions are queued in
\* the order they were registered.  Operations are numbered in the order in
\* which they settle (the arrays passed to the combinators list them in
\* every order), so operation o settles after the operations before it.
SettleOp(o, outcome) ==
    /\ ops[o] = "pending"
    /\ \A q \in Ops : q < o => ops[q] # "pending"
    /\ ops' = [ops EXCEPT ![o] = outcome]
    /\ settleOrder' = Append(settleOrder, o)
    /\ jobs' = jobs \o [k \in 1..Len(SelectSeq(rejectionlessPromises,
                                      LAMBDA i: promises.elems[i] = o))
                          |-> SomeJob(SelectSeq(rejectionlessPromises,
                                      LAMBDA i: promises.elems[i] = o)[k])]
                  \o [k \in 1..Len(SelectSeq(rejectionlessPromises2,
                                      LAMBDA i: promises2.elems[i] = o))
                          |-> SecondJob(SelectSeq(rejectionlessPromises2,
                                      LAMBDA i: promises2.elems[i] = o)[k])]
                  \o (IF alwaysPc = "called" /\ alwaysOp = o THEN <<AlwaysJob>> ELSE <<>>)
    /\ UNCHANGED <<settledAtCall, pc, someVars, noneResult, tryVars, alwaysVars, secondVars>>

\* Promise.some(promises)
CallSome(arg) ==
    /\ pc = "idle"
    /\ pc' = "some"
    /\ promises' = arg
    /\ settledAtCall' = Len(settleOrder)
    /\ LET r == SomeExecutor(arg)
       IN  /\ someResult' = r.res
           /\ rejectionlessPromises' = r.rl
           /\ jobs' = jobs \o r.q
    /\ UNCHANGED <<ops, settleOrder, reasons, rejectionCount, noneResult, tryVars, alwaysVars, secondVars>>

SwappedNone(r, s) == IF s.state = "fulfilled" THEN Resolve(r, ValueOf(s)) ELSE Reject(r, ValueOf(s))

\* Promise.some(promises).then(reject, resolve)
NoneHandlers(r, s) ==
    IF s.state = "fulfilled" THEN Reject(r, ValueOf(s)) ELSE Resolve(r, ValueOf(s))

\* Promise.none(promises): calls Promise.some and registers the swapped handlers.
CallNone(arg) ==
    /\ pc = "idle"
    /\ pc' = "none"
    /\ promises' = arg
    /\ settledAtCall' = Len(settleOrder)
    /\ LET r == SomeExecutor(arg)
       IN  /\ someResult' = r.res
           /\ rejectionlessPromises' = r.rl
           /\ jobs' = jobs \o r.q \o (IF Settled(r.res) THEN <<NoneJob>> ELSE <<>>)
    /\ UNCHANGED <<ops, settleOrder, reasons, rejectionCount, noneResult, tryVars, alwaysVars, secondVars>>

OnFulfilledCancelsLosers ==
    /\ jobs # <<>>
    /\ Head(jobs).handler = "some"
    /\ LET o == promises.elems[Head(jobs).idx]
           new == Resolve(someResult, Scalar(Payload(o)))
       IN  /\ ops[o] = "fulfilled"
           /\ someResult' = new
           /\ jobs' = Tail(jobs) \o NoneReactionQueued(someResult, new)
    /\ ops' = [q \in Ops |-> IF ops[q] = "pending" /\ q \in Range(promises.elems)
                             THEN "rejected" ELSE ops[q]]
    /\ UNCHANGED <<settleOrder, settledAtCall, pc, promises, rejectionlessPromises,
                   reasons, rejectionCount, noneResult, tryVars, alwaysVars, secondVars>>

\* The job of promises[i].then(resolve, ...) for a fulfilled operation.
OnFulfilled ==
    /\ jobs # <<>>
    /\ Head(jobs).handler = "some"
    /\ LET o == promises.elems[Head(jobs).idx]
           new == Resolve(someResult, Scalar(Payload(o)))
       IN  /\ ops[o] = "fulfilled"
           /\ someResult' = new
           /\ jobs' = Tail(jobs) \o NoneReactionQueued(someResult, new)
    /\ UNCHANGED <<ops, settleOrder, settledAtCall, pc, promises, rejectionlessPromises,
                   reasons, rejectionCount, noneResult, tryVars, alwaysVars, secondVars>>

\* The job of promises[i].then(..., rejectLastFailure) for a rejected operation.
OnRejected ==
    /\ jobs # <<>>
    /\ Head(jobs).handler = "some"
    /\ LET o == promises.elems[Head(jobs).idx]
           st == rejectLastFailure([reasons |-> reasons,
                                    rejectionCount |-> rejectionCount,
                                    len |-> Len(promises.elems),
                                    res |-> someResult], Payload(o))
       IN  /\ ops[o] = "rejected"
           /\ reasons' = st.reasons
           /\ rejectionCount' = st.rejectionCount
           /\ someResult' = st.res
           /\ jobs' = Tail(jobs) \o NoneReactionQueued(someResult, st.res)
    /\ UNCHANGED <<ops, settleOrder, settledAtCall, pc, promises, rejectionlessPromises, noneResult, tryVars, alwaysVars, secondVars>>

\* The job of Promise.none's reaction on the result of Promise.some.
NoneReaction ==
    /\ jobs # <<>>
    /\ Head(jobs).handler = "none"
    /\ noneResult' = NoneHandlers(noneResult, someResult)
    /\ jobs' = Tail(jobs)
    /\ UNCHANGED <<ops, settleOrder, settledAtCall, pc, someVars, tryVars, alwaysVars, secondVars>>

---------------------------------------------------------------------------
\* Promise.try

\* Largest attempts argument tried.
MaxAttempts == 2
\* Longest array of durations tried as the time argument.
MaxTimes == 2

\* Infinity, as a duration.
Infinity == 1000

Durations == {0, 100, Infinity}

\* JavaScript values passed as arguments: type is what typeof yields.  A
\* function carries how the operations it would produce behave: "fails" on
\* every invocation, "succeeds" on invocation k after failing k - 1 times, or
\* "slow" (still pending when any timeout elapses, succeeding later).
JsUndefined == [type |-> "undefined", n |-> 0, arr |-> <<>>, promise |-> 0, behaviour |-> "none"]

JsNumber(d) == [JsUndefined EXCEPT !.type = "number", !.n = d]

JsArray(a) == [JsUndefined EXCEPT !.type = "object", !.arr = a]

JsPromise(o) == [JsUndefined EXCEPT !.type = "object", !.promise = o]

JsFunction(b, k) == [JsUndefined EXCEPT !.type = "function", !.behaviour = b, !.n = k]

FnValues ==
    {JsUndefined, JsNumber(7), JsArray(<<>>)}
    \cup {JsPromise(o) : o \in Ops}
    \cup {JsFunction("fails", 0), JsFunction("slow", 0)}
    \cup {JsFunction("succeeds", k) : k \in 1..(MaxAttempts + 1)}

TimeValues ==
    {JsUndefined}
    \cup {JsNumber(d) : d \in Durations}
    \cup {JsArray(a) : a \in UNION {[1..n -> Durations] : n \in 0..MaxTimes}}

AttemptsValues == {JsUndefined} \cup {JsNumber(n) : n \in 0..MaxAttempts}

\* typeof v
TypeOf(v) == v.type

IsArray(v) == v.type = "object" /\ v.promise = 0

\* v || 0, for an undefined or numeric v
OrZero(v) == IF v.type = "number" THEN v.n ELSE 0

\* [].concat(v): the elements of an array, or the value itself as one element.
Concat(v) == IF IsArray(v) THEN [k \in 1..Len(v.arr) |-> JsNumber(v.arr[k])] ELSE <<v>>

\* The value a promise carries when it is resolved with the argument v itself.
ArgumentValue(v) == [tag |-> "argument", items |-> <<v>>]

\* Promise.resolve(v): v itself when v is a Promise, else a new promise
\* fulfilled with v.
PromiseResolve(v) ==
    IF v.promise # 0
    THEN [same |-> v.promise, p |-> Pending]
    ELSE [same |-> 0, p |-> Resolve(Pending, ArgumentValue(v))]

GuardInverted(v) == TypeOf(v) = "Function"

GuardTestsLowercase(v) == TypeOf(v) # "function"

\* typeof fn !== "Function"
IsNotFunction(v) == TypeOf(v) # "Function"

\* timeoutPromiseFactory(): time.pop() throws unless time is an array, and
\* typeof timeToWait === "Number" never holds, so new Promise() without an
\* executor throws.
timeoutPromiseFactory(t, ts) ==
    IF Len(ts) > 0 /\ ~IsArray(t)
    THEN [threw |-> TRUE, time |-> t, timer |-> FALSE]
    ELSE LET popped == IF Len(ts) > 0 /\ Len(t.arr) > 0
                       THEN JsNumber(t.arr[Len(t.arr)])
                       ELSE JsUndefined
             rest   == IF Len(ts) > 0 /\ Len(t.arr) > 0
                       THEN JsArray(SubSeq(t.arr, 1, Len(t.arr) - 1))
                       ELSE t
         IN  IF TypeOf(popped) = "Number" /\ popped.n = 0 /\ popped.n # Infinity
             THEN [threw |-> FALSE, time |-> rest, timer |-> TRUE]
             ELSE [threw |-> TRUE, time |-> rest, timer |-> FALSE]

\* The state of the operation Promise.try returned.
TryOutcome ==
    IF tryResult.same # 0
    THEN [state |-> ops[tryResult.same], tag |-> "value", items |-> <<Payload(tryResult.same)>>]
    ELSE tryResult.p

\* Promise.try(fn, time, attempts)
CallTry(f, t, a) ==
    /\ tryPc = "idle"
    /\ fn' = f
    /\ attemptNum' = 0
    /\ maxAttempts' = OrZero(a)
    /\ times' = Concat(t)
    /\ tryReasons' = <<>>
    /\ IF IsNotFunction(f)
       THEN /\ tryResult' = PromiseResolve(f)
            /\ tryPc' = "returned"
            /\ time' = t
            /\ timers' = timers
       ELSE \* attempt(): the elements of the array given to Promise.race are
            \* evaluated first, and timeoutPromiseFactory() throws.
            LET r == timeoutPromiseFactory(t, Concat(t))
            IN  /\ tryResult' = tryResult
                /\ tryPc' = IF r.threw THEN "threw" ELSE "racing"
                /\ time' = r.time
                /\ timers' = IF r.timer THEN timers + 1 ELSE timers
    /\ UNCHANGED <<ops, settleOrder, settledAtCall, jobs, pc, someVars, noneResult, invocations, alwaysVars, secondVars>>

---------------------------------------------------------------------------
\* Promise.prototype.always

\* The callbacks tried: fn returns a constant or its argument, or throws a
\* constant or its argument.
FnBehaviours == {"returnsConstant", "returnsArgument", "throwsConstant", "throwsArgument"}

\* What fn returns or throws when it does not hand back its argument.
FnConstant == [tag |-> "constant", items |-> <<>>]

\* The outcome of fn(arg).
FnOutcome(b, arg) ==
    [threw |-> b \in {"throwsConstant", "throwsArgument"},
     val   |-> IF b \in {"returnsArgument", "throwsArgument"} THEN arg ELSE FnConstant]

ThenFnOnly == [onFulfilled |-> "fn", onRejected |-> "none"]

\* this.then(fn, fn): fn in both handler slots.
AlwaysHandlers == [onFulfilled |-> "fn", onRejected |-> "fn"]

\* A then() slot without handler: the derived promise takes the operation's
\* own outcome.
PassThrough(res, side, payload) ==
    IF side = "fulfilled" THEN Resolve(res, payload) ELSE Reject(res, payload)

KeepsOriginal(res, side, payload, outcome) == PassThrough(res, side, payload)

\* The promise then() returns settles with the handler's outcome: fulfilled
\* with what it returns, rejected with what it throws.
ThenResult(res, side, payload, outcome) ==
    IF outcome.threw THEN Reject(res, outcome.val) ELSE Resolve(res, outcome.val)

\* operation.always(fn)
CallAlways(o, b) ==
    /\ alwaysPc = "idle"
    /\ alwaysPc' = "called"
    /\ alwaysOp' = o
    /\ alwaysFn' = b
    /\ jobs' = IF ops[o] # "pending" THEN Append(jobs, AlwaysJob) ELSE jobs
    /\ UNCHANGED <<ops, settleOrder, settledAtCall, pc, someVars, noneResult, tryVars,
                   alwaysResult, fnCalls, fnArgs, secondVars>>

\* The job of this.then(fn, fn) once the operation has settled.  A slot
\* without handler passes the operation's outcome through.
AlwaysReaction ==
    /\ jobs # <<>>
    /\ Head(jobs).handler = "always"
    /\ jobs' = Tail(jobs)
    /\ LET side    == ops[alwaysOp]
           payload == Scalar(Payload(alwaysOp))
           slot    == IF side = "fulfilled" THEN AlwaysHandlers.onFulfilled
                      ELSE AlwaysHandlers.onRejected
       IN  IF slot = "fn"
           THEN /\ fnCalls' = fnCalls + 1
                /\ fnArgs' = Append(fnArgs, [side |-> side, val |-> payload])
                /\ alwaysResult' = ThenResult(alwaysResult, side, payload,
                                              FnOutcome(alwaysFn, payload))
           ELSE /\ alwaysResult' = PassThrough(alwaysResult, side, payload)
                /\ UNCHANGED <<fnCalls, fnArgs>>
    /\ UNCHANGED <<ops, settleOrder, settledAtCall, pc, someVars, noneResult, tryVars,
                   alwaysPc, alwaysOp, alwaysFn, secondVars>>

---------------------------------------------------------------------------
\* A second call of Promise.some while the first is in flight: the same
\* code on the closure variables of its own invocation.

\* Longest array passed when two calls are in flight.
TwoLen == 2

\* The arrays of operations passed when two calls are in flight.
TwoArguments ==
    {[defined |-> TRUE, elems |-> a] : a \in UNION {[1..n -> Ops] : n \in 1..TwoLen}}

Reverse(seq) == [k \in 1..Len(seq) |-> seq[Len(seq) + 1 - k]]

\* The arrays passed to the second call: the first call's array, the same
\* promises in the opposite order, and an overlapping set of promises.
SecondArguments ==
    {[defined |-> TRUE, elems |-> a] :
        a \in {promises.elems,
               Reverse(promises.elems),
               [k \in 1..Len(promises.elems) |-> (promises.elems[k] % NumOps) + 1]}}

SharedClosure ==
    [reasons |-> reasons,
     rejectionCount |-> rejectionCount,
     len |-> Len(promises2.elems),
     res |-> someResult2]

\* var rejectionlessPromises, reasons, rejectionCount: declared inside
\* Promise.some, so each invocation has its own.
SecondClosure ==
    [reasons |-> reasons2,
     rejectionCount |-> rejectionCount2,
     len |-> Len(promises2.elems),
     res |-> someResult2]

\* Promise.some(promises), called a second time.
CallSome2(arg) ==
    /\ pc = "some"
    /\ pc2 = "idle"
    /\ pc2' = "some"
    /\ promises2' = arg
    /\ settledAtCall2' = Len(settleOrder)
    /\ LET r == SomeExecutor(arg)
       IN  /\ someResult2' = r.res
           /\ rejectionlessPromises2' = r.rl
           /\ jobs' = jobs \o [k \in 1..Len(r.q) |-> SecondJob(r.q[k].idx)]
    /\ UNCHANGED <<ops, settleOrder, settledAtCall, pc, someVars, noneResult, tryVars,
                   alwaysVars, reasons2, rejectionCount2>>

\* The second call's job of promises[i].then(resolve, ...).
OnFulfilled2 ==
    /\ jobs # <<>>
    /\ Head(jobs).handler = "some2"
    /\ LET o == promises2.elems[Head(jobs).idx]
       IN  /\ ops[o] = "fulfilled"
           /\ someResult2' = Resolve(someResult2, Scalar(Payload(o)))
    /\ jobs' = Tail(jobs)
    /\ UNCHANGED <<ops, settleOrder, settledAtCall, pc, someVars, noneResult, tryVars,
                   alwaysVars, pc2, promises2, settledAtCall2, rejectionlessPromises2,
                   reasons2, rejectionCount2>>

\* The second call's job of promises[i].then(..., rejectLastFailure).
OnRejected2 ==
    /\ jobs # <<>>
    /\ Head(jobs).handler = "some2"
    /\ LET o == promises2.elems[Head(jobs).idx]
           st == rejectLastFailure(SecondClosure, Payload(o))
       IN  /\ ops[o] = "rejected"
           /\ reasons2' = st.reasons
           /\ rejectionCount2' = st.rejectionCount
           /\ someResult2' = st.res
    /\ jobs' = Tail(jobs)
    /\ UNCHANGED <<ops, settleOrder, settledAtCall, pc, someVars, noneResult, tryVars,
                   alwaysVars, pc2, promises2, settledAtCall2, rejectionlessPromises2>>

Init ==
    /\ ops = [o \in Ops |-> "pending"]
    /\ settleOrder = <<>>
    /\ settledAtCall = 0
    /\ jobs = <<>>
    /\ pc = "idle"
    /\ promises = Undefined
    /\ rejectionlessPromises = <<>>
    /\ reasons = <<>>
    /\ rejectionCount = 0
    /\ someResult = Pending
    /\ noneResult = Pending
    /\ tryPc = "idle"
    /\ fn = JsUndefined
    /\ time = JsUndefined
    /\ attemptNum = 0
    /\ maxAttempts = 0
    /\ times = <<>>
    /\ tryReasons = <<>>
    /\ tryResult = [same |-> 0, p |-> Pending]
    /\ invocations = 0
    /\ timers = 0
    /\ alwaysPc = "idle"
    /\ alwaysOp = 1
    /\ alwaysFn = "returnsConstant"
    /\ alwaysResult = Pending
    /\ fnCalls = 0
    /\ fnArgs = <<>>
    /\ pc2 = "idle"
    /\ promises2 = Undefined
    /\ settledAtCall2 = 0
    /\ rejectionlessPromises2 = <<>>
    /\ reasons2 = <<>>
    /\ rejectionCount2 = 0
    /\ someResult2 = Pending

Next ==
    \/ \E o \in Ops, outcome \in {"fulfilled", "rejected"} : SettleOp(o, outcome)
    \/ \E arg \in Arguments : CallSome(arg)
    \/ \E arg \in Arguments : CallNone(arg)
    \/ OnFulfilled
    \/ OnRejected
    \/ NoneReaction

Spec == Init /\ [][Next]_vars

---------------------------------------------------------------------------
\* Properties of Promise.some and Promise.none (checked under Spec)

Called == pc # "idle"

\* The argument is a non-empty array whose elements are all Promises.
AllOperations ==
    /\ promises.defined
    /\ Len(promises.elems) > 0
    /\ \A i \in 1..Len(promises.elems) : IsPromise(promises.elems[i])

InputOps == {promises.elems[i] : i \in 1..Len(promises.elems)} \cap Ops

\* Every operation of the input has settled and every reaction has run.
Quiescent == jobs = <<>> /\ \A o \in InputOps : ops[o] # "pending"

\* How many elements of the input are operation o.
Multiplicity(o) == Cardinality({i \in 1..Len(promises.elems) : promises.elems[i] = o})

\* The input operations that succeeded, in the order they settled.
Successes == SelectSeq(settleOrder, LAMBDA o : o \in InputOps /\ ops[o] = "fulfilled")

\* The reasons of the input's elements in the order their operations settled.
RECURSIVE LogInSettlementOrder(_)
LogInSettlementOrder(order) ==
    IF order = <<>> THEN <<>>
    ELSE [k \in 1..Multiplicity(Head(order)) |-> Payload(Head(order))]
         \o LogInSettlementOrder(Tail(order))

\* The indices in S from the largest to the smallest.
RECURSIVE Descending(_)
Descending(S) ==
    IF S = {} THEN <<>>
    ELSE LET m == CHOOSE x \in S : \A y \in S : y <= x
         IN  <<m>> \o Descending(S \ {m})

\* Operation o had settled when the combinator was called.
SettledBeforeCall(o) == \E k \in 1..settledAtCall : settleOrder[k] = o

\* The input indices of the operations that settled after the call, operation
\* by operation in settlement order.
RECURSIVE AfterCallOrder(_)
AfterCallOrder(k) ==
    IF k > Len(settleOrder) THEN <<>>
    ELSE Descending({i \in 1..Len(promises.elems) : promises.elems[i] = settleOrder[k]})
         \o AfterCallOrder(k + 1)

\* The input indices of the settled operations: those settled before the
\* call from the last element to the first, then the others in settlement
\* order.
ReactionOrder ==
    Descending({i \in 1..Len(promises.elems) :
                    IsPromise(promises.elems[i]) /\ SettledBeforeCall(promises.elems[i])})
    \o AfterCallOrder(settledAtCall + 1)

SuccessesInReactionOrder ==
    SelectSeq(ReactionOrder, LAMBDA i : ops[promises.elems[i]] = "fulfilled")

C2_AllFailLogInSettlementOrder ==
    (Called /\ AllOperations /\ Quiescent /\ \A o \in InputOps : ops[o] = "rejected") =>
        /\ someResult.state = "rejected"
        /\ ValueOf(someResult) = Array(LogInSettlementOrder(settleOrder))

\* C2 amended: the reasons of the operations already settled at the call
\* come first, from the last element to the first, then those of the
\* operations that settle after the call in settlement order.
C2_AllFailLogInReactionOrder ==
    (Called /\ AllOperations /\ Quiescent /\ \A o \in InputOps : ops[o] = "rejected") =>
        /\ someResult.state = "rejected"
        /\ ValueOf(someResult) =
               Array([k \in 1..Len(ReactionOrder) |-> Payload(promises.elems[ReactionOrder[k]])])
        /\ Len(someResult.items) = Len(promises.elems)

\* Three operations failed after the call, in an order that is neither the
\* input order nor its reverse.
C2_Witness ==
    /\ pc = "some"
    /\ AllOperations
    /\ settledAtCall = 0
    /\ Len(settleOrder) = 3
    /\ promises.elems = <<settleOrder[2], settleOrder[1], settleOrder[3]>>
    /\ Quiescent
    /\ someResult = Reject(Pending, Array(settleOrder))

\* C3: Promise.some on a non-empty array of operations is rejected only when
\* every operation of the input has failed; none is pending or fulfilled.
C3_RejectsOnlyIfAllReject ==
    (Called /\ AllOperations /\ someResult.state = "rejected") =>
        \A o \in InputOps : ops[o] = "rejected"

C3_Witness ==
    /\ pc = "some"
    /\ AllOperations
    /\ Cardinality(InputOps) >= 2
    /\ someResult.state = "rejected"

\* C4: Promise.some on an empty array or on undefined is fulfilled with an
\* empty array, registers no reaction and is never rejected.
C4_VacuousSuccess ==
    (Called /\ (~promises.defined \/ promises.elems = <<>>)) =>
        /\ someResult = Resolve(Pending, Array(<<>>))
        /\ rejectionlessPromises = <<>>
        /\ \A k \in 1..Len(jobs) : jobs[k].handler # "some"
        /\ reasons = <<>> /\ rejectionCount = 0

C4_Witness ==
    /\ pc = "some"
    /\ promises.defined
    /\ promises.elems = <<>>
    /\ Len(settleOrder) = NumOps
    /\ someResult.state = "fulfilled"

\* Some element of the argument is not a Promise.
HasNonPromise ==
    /\ promises.defined
    /\ \E i \in 1..Len(promises.elems) : ~IsPromise(promises.elems[i])

\* C5: when some element is not a Promise the result of Promise.some is
\* rejected with the error string, whatever the other elements do.
C5_ValidationFailure ==
    (Called /\ HasNonPromise) => someResult = Reject(Pending, ErrorMessage)

C5_Witness ==
    /\ pc = "some"
    /\ HasNonPromise
    /\ \E o \in InputOps : ops[o] = "fulfilled"
    /\ Quiescent
    /\ someResult.state = "rejected"

\* C6: the result of Promise.none is fulfilled only when the result of
\* Promise.some is rejected, and rejected only when it is fulfilled, with the
\* same payload; once Promise.some has settled Promise.none has settled too
\* or its reaction is queued.
C6_NegationLaw ==
    pc = "none" =>
        /\ noneResult.state = "fulfilled" =>
              someResult.state = "rejected" /\ ValueOf(noneResult) = ValueOf(someResult)
        /\ noneResult.state = "rejected" =>
              someResult.state = "fulfilled" /\ ValueOf(noneResult) = ValueOf(someResult)
        /\ Settled(someResult) =>
              Settled(noneResult) \/ \E k \in 1..Len(jobs) : jobs[k] = NoneJob
        /\ Settled(noneResult) => \A k \in 1..Len(jobs) : jobs[k] # NoneJob

C6_Witness ==
    /\ pc = "none"
    /\ noneResult.state = "fulfilled"
    /\ noneResult.tag = "array"
    /\ Len(noneResult.items) >= 2

\* C13: once the result of Promise.some or of Promise.none has settled, no
\* step changes its side or its value.
C13_SettlesAtMostOnce ==
    [][/\ Settled(someResult) => someResult' = someResult
       /\ Settled(noneResult) => noneResult' = noneResult]_vars

\* The first operation succeeded; later a failure and another success
\* arrived, and Promise.none was rejected with the first value.
C13_Witness ==
    /\ pc = "none"
    /\ AllOperations
    /\ InputOps = Ops
    /\ settledAtCall = 0
    /\ ops[1] = "fulfilled" /\ ops[2] = "rejected" /\ ops[3] = "fulfilled"
    /\ jobs = <<>>
    /\ reasons = <<Payload(2)>>
    /\ someResult = Resolve(Pending, Scalar(Payload(1)))
    /\ noneResult = Reject(Pending, Scalar(Payload(1)))

\* C16: the combinators only observe operations.  A step that changes the
\* state of an operation changes a pending one and is no step of a
\* combinator: it leaves every combinator's state as it is and runs no
\* reaction.
C16_OperationsOnlyObserved ==
    [][\A o \in Ops : ops'[o] # ops[o] =>
          /\ ops[o] = "pending"
          /\ pc' = pc /\ someVars' = someVars /\ noneResult' = noneResult
          /\ tryVars' = tryVars /\ alwaysVars' = alwaysVars
          /\ Len(jobs') >= Len(jobs)]_vars

\* Operation 1 won the race; the losers settled afterwards, one each way.
C16_Witness ==
    /\ pc = "some"
    /\ AllOperations
    /\ InputOps = Ops
    /\ settledAtCall = 0
    /\ ops[1] = "fulfilled" /\ ops[2] = "fulfilled" /\ ops[3] = "rejected"
    /\ jobs = <<>>
    /\ someResult = Resolve(Pending, Scalar(Payload(1)))

---------------------------------------------------------------------------
\* Properties of Promise.try (checked under TrySpec).  Promise.try takes no
\* step after it returns: no reaction and no timer is pending, so what it
\* will ever do has been done in the state it returns in.

TryCalled == tryPc # "idle"

\* The outcome is an array of n reasons.
RejectedWithReasons(n) ==
    /\ TryOutcome.state = "rejected"
    /\ TryOutcome.tag = "array"
    /\ Len(TryOutcome.items) = n

C8_RetryEarlySuccess ==
    (TryCalled /\ TypeOf(fn) = "function" /\ fn.behaviour = "succeeds"
               /\ fn.n <= maxAttempts + 1) =>
        /\ tryPc = "returned"
        /\ invocations = fn.n
        /\ TryOutcome.state = "fulfilled"
        /\ TryOutcome.tag = "value"

\* C9: with a finite positive timeout and a factory whose operation is still
\* pending whenever the timeout elapses, every attempt times out and the
\* result is rejected with maxAttempts + 1 reasons.
C9_TimeoutTriggersRetry ==
    (TryCalled /\ TypeOf(fn) = "function" /\ fn.behaviour = "slow"
               /\ TypeOf(time) = "number" /\ time.n > 0 /\ time.n # Infinity) =>
        /\ tryPc = "returned"
        /\ timers = maxAttempts + 1
        /\ RejectedWithReasons(maxAttempts + 1)

\* C10 as stated: with a first argument that is not invocable the result is
\* fulfilled with that argument, never rejected, and no attempt is made and
\* no timer started.
C10_NonInvocableResolves ==
    (TryCalled /\ TypeOf(fn) # "function") =>
        /\ tryPc = "returned"
        /\ TryOutcome.state # "rejected"
        /\ TryOutcome.state = "fulfilled" => TryOutcome.tag = "argument"
        /\ invocations = 0 /\ timers = 0

\* C10 amended: a first argument that is neither invocable nor a Promise
\* gives a result fulfilled with that argument; a Promise is returned as it
\* is; in both cases no attempt is made and no timer started.
C10_NonInvocablePassesThrough ==
    (TryCalled /\ TypeOf(fn) # "function") =>
        /\ tryPc = "returned"
        /\ fn.promise = 0 => tryResult = [same |-> 0, p |-> Resolve(Pending, ArgumentValue(fn))]
        /\ fn.promise # 0 => tryResult.same = fn.promise
        /\ invocations = 0 /\ timers = 0
        /\ attemptNum = 0 /\ tryReasons = <<>>

C10_Witness ==
    /\ tryPc = "returned"
    /\ fn = JsNumber(7)
    /\ TypeOf(time) = "object" /\ Len(time.arr) = MaxTimes
    /\ maxAttempts = MaxAttempts
    /\ TryOutcome.state = "fulfilled"
    /\ TryOutcome.items = <<fn>>

---------------------------------------------------------------------------
\* Properties of always (checked under AlwaysSpec)

\* C11 as stated: the promise always returns settles on the same side and
\* with the same value or reason as the operation.
C11_AlwaysKeepsOutcome ==
    (alwaysPc = "called" /\ Settled(alwaysResult)) =>
        /\ alwaysResult.state = ops[alwaysOp]
        /\ ValueOf(alwaysResult) = Scalar(Payload(alwaysOp))

\* C11 amended: the promise always returns settles with the outcome of fn,
\* fulfilled with what fn returns and rejected with what fn throws, on
\* whichever side the operation settled.
C11_AlwaysTakesOutcomeOfFn ==
    (alwaysPc = "called" /\ Settled(alwaysResult)) =>
        /\ ops[alwaysOp] # "pending"
        /\ alwaysFn = "returnsConstant" => alwaysResult = Resolve(Pending, FnConstant)
        /\ alwaysFn = "returnsArgument" =>
               alwaysResult = Resolve(Pending, Scalar(Payload(alwaysOp)))
        /\ alwaysFn = "throwsConstant" => alwaysResult = Reject(Pending, FnConstant)
        /\ alwaysFn = "throwsArgument" =>
               alwaysResult = Reject(Pending, Scalar(Payload(alwaysOp)))

\* A failed operation whose callback returns normally: the result is fulfilled.
C11_Witness ==
    /\ alwaysPc = "called"
    /\ ops[alwaysOp] = "rejected"
    /\ alwaysFn = "returnsArgument"
    /\ alwaysResult.state = "fulfilled"

\* C12: fn is invoked at most once, never while the operation is pending,
\* with the value or reason the operation settled with, and it has been
\* invoked once the operation has settled and its reaction has run.
C12_AlwaysInvokesOnce ==
    alwaysPc = "called" =>
        /\ fnCalls <= 1 /\ Len(fnArgs) = fnCalls
        /\ ops[alwaysOp] = "pending" => fnCalls = 0
        /\ fnCalls = 1 => fnArgs = <<[side |-> ops[alwaysOp],
                                      val |-> Scalar(Payload(alwaysOp))]>>
        /\ (ops[alwaysOp] # "pending" /\ \A k \in 1..Len(jobs) : jobs[k] # AlwaysJob)
               => fnCalls = 1

C12_Witness ==
    /\ alwaysPc = "called"
    /\ ops[alwaysOp] = "rejected"
    /\ fnCalls = 1
    /\ jobs = <<>>

\* always and the operations of its environment.
AlwaysNext ==
    \/ \E o \in Ops, outcome \in {"fulfilled", "rejected"} : SettleOp(o, outcome)
    \/ \E o \in Ops, b \in FnBehaviours : CallAlways(o, b)
    \/ AlwaysReaction

AlwaysSpec == Init /\ [][AlwaysNext]_vars

\* C15: the first attempt, started by the call itself, has consumed one
\* duration: an array of durations has lost its last element, and a timer
\* runs exactly when the duration used is finite and positive.
C15_ScheduleConsumedFromTail ==
    (TryCalled /\ TypeOf(fn) = "function") =>
        /\ tryPc = "returned"
        /\ (IsArray(time) /\ Len(times) > 0) =>
              /\ Len(time.arr) = Len(times) - 1
              /\ timers = IF times[Len(times)].n \in {0, Infinity} THEN 0 ELSE 1
        /\ TypeOf(time) = "number" =>
              timers = IF time.n \in {0, Infinity} THEN 0 ELSE 1
        /\ TypeOf(time) = "undefined" => timers = 0

---------------------------------------------------------------------------
\* Properties of two calls of Promise.some in flight (checked under TwoSpec)

\* The indices of elems whose operation has settled, in the order their
\* reactions are queued for a call made when n operations had settled.
RECURSIVE AfterCallOrderOf(_, _)
AfterCallOrderOf(elems, k) ==
    IF k > Len(settleOrder) THEN <<>>
    ELSE Descending({i \in 1..Len(elems) : elems[i] = settleOrder[k]})
         \o AfterCallOrderOf(elems, k + 1)

ReactionOrderOf(elems, n) ==
    Descending({i \in 1..Len(elems) : \E k \in 1..n : settleOrder[k] = elems[i]})
    \o AfterCallOrderOf(elems, n + 1)

\* The reasons a call on elems logs when it runs alone.
LogAlone(elems, n) ==
    LET failed == SelectSeq(ReactionOrderOf(elems, n), LAMBDA i : ops[elems[i]] = "rejected")
    IN  [k \in 1..Len(failed) |-> Payload(elems[failed[k]])]

\* The result of a call on elems when it runs alone, once every operation
\* has settled and every reaction has run.
ResultAlone(elems, n) ==
    LET won == SelectSeq(ReactionOrderOf(elems, n), LAMBDA i : ops[elems[i]] = "fulfilled")
    IN  IF won # <<>> THEN Resolve(Pending, Scalar(Payload(elems[won[1]])))
        ELSE Reject(Pending, Array(LogAlone(elems, n)))

IsPrefix(a, b) == Len(a) <= Len(b) /\ a = SubSeq(b, 1, Len(a))

BothQuiescent ==
    /\ jobs = <<>>
    /\ \A o \in Range(promises.elems) \cup Range(promises2.elems) : ops[o] # "pending"

\* C17: with two calls in flight, each call's reason log and rejection count
\* hold only what its own reactions contributed (a prefix of the log it
\* builds alone), and its final log and result are those of the call alone.
C17_CallsAreIsolated ==
    (pc = "some" /\ pc2 = "some") =>
        /\ IsPrefix(reasons, LogAlone(promises.elems, settledAtCall))
        /\ IsPrefix(reasons2, LogAlone(promises2.elems, settledAtCall2))
        /\ rejectionCount = Len(reasons) /\ rejectionCount2 = Len(reasons2)
        /\ BothQuiescent =>
              /\ reasons = LogAlone(promises.elems, settledAtCall)
              /\ reasons2 = LogAlone(promises2.elems, settledAtCall2)
              /\ someResult = ResultAlone(promises.elems, settledAtCall)
              /\ someResult2 = ResultAlone(promises2.elems, settledAtCall2)

\* Two calls on overlapping sets, both failed, with different logs.
C17_Witness ==
    /\ pc = "some" /\ pc2 = "some"
    /\ promises.elems = <<1, 2>>
    /\ promises2.elems = <<2, 3>>
    /\ settledAtCall2 = 0
    /\ BothQuiescent
    /\ someResult = Reject(Pending, Array(<<1, 2>>))
    /\ someResult2 = Reject(Pending, Array(<<2, 3>>))

\* Two calls of Promise.some in flight.
TwoNext ==
    \/ \E o \in Ops, outcome \in {"fulfilled", "rejected"} : SettleOp(o, outcome)
    \/ \E arg \in TwoArguments : CallSome(arg)
    \/ \E arg \in SecondArguments : CallSome2(arg)
    \/ OnFulfilled
    \/ OnRejected
    \/ OnFulfilled2
    \/ OnRejected2

TwoSpec == Init /\ [][TwoNext]_vars

---------------------------------------------------------------------------
\* The bookkeeping of Promise.some (checked under Spec)

\* The step runs the reaction job of a failed operation of Promise.some.
FailedContinuationRuns ==
    /\ jobs # <<>>
    /\ Head(jobs).handler = "some"
    /\ ops[promises.elems[Head(jobs).idx]] = "rejected"
    /\ jobs' = <<>> \/ Head(jobs') # Head(jobs)

\* The step rejects the result of Promise.some with the array of reasons.
AggregateFailureIssued ==
    /\ someResult' # someResult
    /\ someResult'.state = "rejected"
    /\ someResult'.tag = "array"

\* C20: rejectionCount is the length of reasons and at most the length of
\* the input; a step that runs the reaction of a failed operation appends
\* one reason and adds one to the count, any other step leaves both alone;
\* the result is rejected with the reasons only in the step that brings the
\* count to the length of the input.
C20_Bookkeeping ==
    /\ [](/\ rejectionCount = Len(reasons)
          /\ rejectionCount <= Len(promises.elems))
    /\ [][/\ FailedContinuationRuns =>
                /\ rejectionCount' = rejectionCount + 1
                /\ Len(reasons') = Len(reasons) + 1
                /\ SubSeq(reasons', 1, Len(reasons)) = reasons
          /\ ~FailedContinuationRuns =>
                /\ rejectionCount' = rejectionCount
                /\ reasons' = reasons
          /\ AggregateFailureIssued =>
                /\ FailedContinuationRuns
                /\ rejectionCount < Len(promises.elems)
                /\ rejectionCount' = Len(promises.elems)
                /\ someResult'.items = reasons']_vars

\* Every element failed: the count reached the length of the input and the
\* result carries the whole log.
C20_Witness ==
    /\ pc = "some"
    /\ Len(promises.elems) = MaxLen
    /\ rejectionCount = MaxLen
    /\ Len(reasons) = MaxLen
    /\ someResult = Reject(Pending, Array(reasons))

---------------------------------------------------------------------------
\* Progress of Promise.some (checked under FairSpec)

\* Promise.some and the operations of its environment.
SomeNext ==
    \/ \E o \in Ops, outcome \in {"fulfilled", "rejected"} : SettleOp(o, outcome)
    \/ \E arg \in Arguments : CallSome(arg)
    \/ OnFulfilled
    \/ OnRejected

\* The host runs every queued reaction job: the job at the head of the
\* queue stays enabled until it is run.
FairSpec ==
    /\ Init
    /\ [][SomeNext]_vars
    /\ WF_vars(OnFulfilled)
    /\ WF_vars(OnRejected)

\* C18: once Promise.some has been called and every operation of its input
\* has settled, the result settles (non-Promise elements and repeated
\* operations included).
C18_SomeEventuallySettles ==
    (pc = "some" /\ \A o \in InputOps : ops[o] # "pending") ~> Settled(someResult)

\* An input that holds the same operation twice, every operation failed,
\* and the result rejected with one reason per element.
C18_Witness ==
    /\ pc = "some"
    /\ promises.elems = <<1, 1, 2>>
    /\ settledAtCall = 0
    /\ ops[1] = "rejected" /\ ops[2] = "rejected"
    /\ someResult = Reject(Pending, Array(<<1, 1, 2>>))

\* Promise.try and the operations of its environment.
TryNext ==
    \/ \E o \in Ops, outcome \in {"fulfilled", "rejected"} : SettleOp(o, outcome)
    \/ \E f \in FnValues, t \in TimeValues, a \in AttemptsValues : CallTry(f, t, a)

TrySpec == Init /\ [][TryNext]_vars

====
